---------------------------- MODULE Spec2Model ----------------------------
(***************************************************************************)
(* Referee server of the karuta party game (backend main.go, latest        *)
(* iteration).  One task per websocket connection (handleConnections), one *)
(* goroutine per armed timer, one registry of rooms guarded by globalMutex *)
(* and one mutex per room.  A step of the model is one critical section    *)
(* (Lock .. Unlock) of the code, or one read the code makes without the    *)
(* mutex; the sleeps and the timers are the points between the steps.     *)
(***************************************************************************)
EXTENDS Integers, Sequences, FiniteSets, TLC

(* ------------------------------ bounds -------------------------------- *)
\* connections that ever open a websocket
NumConns == 5
\* connections that take part in the game specification
GameConns == 2
\* room numbers generateRoomID draws from (10000 in the source)
NumRoomIDs == 2
\* create_room messages one connection sends
MaxEntries == 2
\* rounds after which the inter-round pause no longer starts a round
MaxRound == 2
\* songs in the largest data/songs.json
NumSongs == 3

\* the song pool of a game (25 in the source, scaled with the board)
PoolLimit == 3
\* the cards of a board and the matched count that ends the game (16 in the
\* source, scaled so that a game can be played to its end)
CardLimit == 2

(* ------------------------- program constants -------------------------- *)
MaxPlayers == 4
RewardBuzz == 10
RewardNoSong == 5
Penalty == 5

Conns == 1..NumConns
RoomIDs == 1..NumRoomIDs
SongIDs == 1..NumSongs
\* data/songs.json with n songs, ids in file order
Catalogue(n) == [i \in 1..n |-> i]
\* Song.TitleOriginal of the song with this id
TitleOf(id) == <<"title", id>>

\* nil pointers: objects are numbered from 1
Nil == 0
\* the Player and the Room a connection allocates in its k-th create/join
Obj(c, k) == c + NumConns * (k - 1)
\* Player.Conn
ConnOf(o) == ((o - 1) % NumConns) + 1

VARIABLES
    globalSongs, \* the catalogue loadSongs read at startup
    rooms,    \* the registry: room number -> Room object
    room,     \* heap of Room objects
    player,   \* heap of Player objects
    conn,     \* per connection: the handler's position and its locals
    tasks,    \* timer goroutines in flight
    sent,     \* frames and audio responses written by the last step
    ghost     \* per room: history the properties speak about

vars == <<globalSongs, rooms, room, player, conn, tasks, sent, ghost>>

(* ------------------------------ helpers ------------------------------- *)
Range(f) == {f[x] : x \in DOMAIN f}

RemoveAt(s, i) == [j \in 1..(Len(s) - 1) |-> IF j < i THEN s[j] ELSE s[j + 1]]

\* all orders of the elements of a set (rand.Shuffle)
RECURSIVE Perms(_)
Perms(S) ==
    IF S = {} THEN {<<>>}
    ELSE UNION {{<<x>> \o p : p \in Perms(S \ {x})} : x \in S}

Min(a, b) == IF a < b THEN a ELSE b

\* the connections a broadcast over room.Players writes to
Members(rm) == {ConnOf(rm.Players[id]) : id \in DOMAIN rm.Players}

NoLocals == [room |-> Nil, ret |-> "idle", snap |-> <<>>,
             playerName |-> "", playerID |-> Nil, roundNum |-> 0]

IdleConn == [pc |-> "idle", currentRoom |-> Nil, currentPlayer |-> Nil,
             entered |-> 0, loc |-> NoLocals]

NewGhost == [cd |-> 0, ten |-> 0, reaped |-> FALSE]

\* the room's mutex can be taken
Free(r) == room[r].Mutex = "free"

At(c, pc) == conn[c].pc = pc

Goto(c, pc, loc) == [conn EXCEPT ![c].pc = pc, ![c].loc = loc]

\* the server after loadSongs has read a catalogue of n songs
Loaded(n) ==
    /\ globalSongs = Catalogue(n)
    /\ rooms = <<>>
    /\ room = <<>>
    /\ player = <<>>
    /\ conn = [c \in Conns |-> IdleConn]
    /\ tasks = {}
    /\ sent = <<>>
    /\ ghost = <<>>

\* a catalogue of at least one song: smaller than the board, as large as the
\* board, or larger
Init == \E n \in 1..NumSongs : Loaded(n)

\* a catalogue that fills the board and no more
InitBoard == Loaded(CardLimit)

(* --------------------------- broadcasts ------------------------------- *)
\* Player values as json.Marshal writes them (IsReady and Conn are "-")
PlayerList(rm, pl) ==
    {[id |-> pl[o].ID, name |-> pl[o].Name, score |-> pl[o].Score,
      hasAnswered |-> pl[o].HasAnswered, gameReady |-> pl[o].GameReady]
        : o \in Range(rm.Players)}

Frame(type, to, r, payload) ==
    [type |-> type, to |-> to, room |-> r, payload |-> payload]

\* broadcastRoomState, first critical section: copy the players
broadcastRoomState_snap(c) ==
    /\ At(c, "bs_snap")
    /\ Free(conn[c].loc.room)
    /\ LET r == conn[c].loc.room
           snap == [players |-> PlayerList(room[r], player), ownerId |-> room[r].OwnerID]
       IN conn' = Goto(c, "bs_send", [conn[c].loc EXCEPT !.snap = snap])
    /\ sent' = <<>>
    /\ UNCHANGED <<rooms, room, player, tasks, ghost, globalSongs>>

\* where a handler goes on after its broadcastRoomState
AfterBroadcast(c) ==
    IF conn[c].loc.ret = "closed"
    THEN [conn EXCEPT ![c] = [IdleConn EXCEPT !.pc = "closed"]]
    ELSE Goto(c, conn[c].loc.ret,
              IF conn[c].loc.ret = "idle" THEN NoLocals
              ELSE [conn[c].loc EXCEPT !.snap = <<>>, !.ret = "idle"])

\* broadcastRoomState, second part: broadcastToRoom of the copy
broadcastRoomState_send(c) ==
    /\ At(c, "bs_send")
    /\ Free(conn[c].loc.room)
    /\ LET r == conn[c].loc.room
       IN sent' = <<Frame("room_state_update", Members(room[r]), r, conn[c].loc.snap)>>
    /\ conn' = AfterBroadcast(c)
    /\ UNCHANGED <<rooms, room, player, tasks, ghost, globalSongs>>


(* ------------------------- rooms and players -------------------------- *)
\* &Room{ID, OwnerID, Players: make(map), State: "waiting"}: the other fields
\* have Go's zero values
NewRoom(id, ownerID) ==
    [ID |-> id, OwnerID |-> ownerID, Players |-> <<>>, State |-> "waiting",
     CurrentRound |-> 0, SongPool |-> <<>>, BoardCards |-> <<>>,
     CurrentSong |-> Nil, CurrentSongIndex |-> 0, RoundState |-> "",
     TimerCancel |-> Nil, Mutex |-> "free"]

\* &Player{ID, Name, Score: 0, Conn: conn}
NewPlayer(id, name) ==
    [ID |-> id, Name |-> name, Score |-> 0, HasAnswered |-> FALSE,
     GameReady |-> FALSE, IsReady |-> FALSE]

\* room.Players[playerID] = newPlayer
PutPlayer(rm, id, o) ==
    [rm EXCEPT !.Players = [k \in (DOMAIN rm.Players) \cup {id} |->
                               IF k = id THEN o ELSE rm.Players[k]]]

\* delete(m, key)
Delete(m, key) == [k \in (DOMAIN m) \ {key} |-> m[k]]

\* close(room.TimerCancel): the goroutine selecting on that channel sees it
Close(tk, ch) ==
    {IF t.id = ch THEN [t EXCEPT !.cancel = TRUE] ELSE t : t \in tk}

\* if room.TimerCancel != nil { close(room.TimerCancel) }
CancelTimer(tk, rm) == IF rm.TimerCancel # Nil THEN Close(tk, rm.TimerCancel) ELSE tk

\* generateRoomID: a number that is not a key of rooms
generateRoomID == RoomIDs \ DOMAIN rooms

(* ------------------------- case "create_room" ------------------------- *)
\* under globalMutex: allocate the room and register it
create_room(c, playerName, playerID) ==
    /\ At(c, "idle")
    /\ \E id \in generateRoomID :
         LET r == Obj(c, conn[c].entered + 1)
         IN /\ room' = (r :> NewRoom(id, playerID)) @@ room
            /\ rooms' = (id :> r) @@ rooms
            /\ ghost' = (r :> NewGhost) @@ ghost
            /\ conn' = Goto(c, "create_add",
                            [NoLocals EXCEPT !.room = r, !.playerName = playerName,
                                             !.playerID = playerID])
    /\ sent' = <<>>
    /\ UNCHANGED <<player, tasks, globalSongs>>

\* under the room mutex: enter the room as its first player; then the
\* room_created reply, and on to broadcastRoomState
create_room_add(c) ==
    /\ At(c, "create_add")
    /\ Free(conn[c].loc.room)
    /\ LET r == conn[c].loc.room
           o == Obj(c, conn[c].entered + 1)
       IN /\ player' = (o :> NewPlayer(conn[c].loc.playerID, conn[c].loc.playerName)) @@ player
          /\ room' = [room EXCEPT ![r] = PutPlayer(@, conn[c].loc.playerID, o)]
          /\ conn' = [conn EXCEPT ![c].pc = "bs_snap", ![c].currentRoom = r,
                                  ![c].currentPlayer = o, ![c].entered = @ + 1,
                                  ![c].loc = [NoLocals EXCEPT !.room = r]]
          /\ sent' = <<Frame("room_created", {c}, r, [roomId |-> room[r].ID])>>
    /\ UNCHANGED <<rooms, tasks, ghost, globalSongs>>

(* -------------------------- case "join_room" -------------------------- *)
\* an error written to every connection
ErrorFrame_toAll(c, message) == Frame("error", Conns, Nil, [message |-> message])

ErrorFrame(c, message) == Frame("error", {c}, Nil, [message |-> message])

\* under globalMutex: look the room up
join_room(c, roomID, playerName, playerID) ==
    /\ At(c, "idle")
    /\ IF roomID \in DOMAIN rooms
       THEN /\ conn' = Goto(c, "join_add",
                            [NoLocals EXCEPT !.room = rooms[roomID],
                                             !.playerName = playerName,
                                             !.playerID = playerID])
            /\ sent' = <<>>
       ELSE /\ sent' = <<ErrorFrame(c, "room not found")>>
            /\ UNCHANGED conn
    /\ UNCHANGED <<rooms, room, player, tasks, ghost, globalSongs>>

\* under the room mutex: the room-full and the name checks, then enter
join_room_add(c) ==
    /\ At(c, "join_add")
    /\ Free(conn[c].loc.room)
    /\ LET r == conn[c].loc.room
           o == Obj(c, conn[c].entered + 1)
           nameConflict == \E q \in Range(room[r].Players) :
                               player[q].Name = conn[c].loc.playerName
       IN IF Cardinality(DOMAIN room[r].Players) >= MaxPlayers
          THEN /\ sent' = <<ErrorFrame(c, "room full")>>
               /\ conn' = Goto(c, "idle", NoLocals)
               /\ UNCHANGED <<room, player>>
          ELSE IF nameConflict
          THEN /\ sent' = <<ErrorFrame(c, "name taken")>>
               /\ conn' = Goto(c, "idle", NoLocals)
               /\ UNCHANGED <<room, player>>
          ELSE /\ player' = (o :> NewPlayer(conn[c].loc.playerID,
                                            conn[c].loc.playerName)) @@ player
               /\ room' = [room EXCEPT ![r] = PutPlayer(@, conn[c].loc.playerID, o)]
               /\ conn' = [conn EXCEPT ![c].pc = "bs_snap", ![c].currentRoom = r,
                                       ![c].currentPlayer = o, ![c].entered = @ + 1,
                                       ![c].loc = [NoLocals EXCEPT !.room = r,
                                                                   !.ret = "join_sync"]]
               /\ sent' = <<>>
    /\ UNCHANGED <<rooms, tasks, ghost, globalSongs>>

\* without the mutex: if room.State == "playing", the payload of game_started
\* is built: the slice room.BoardCards and the value of room.CurrentRound
join_room_sync(c) ==
    /\ At(c, "join_sync")
    /\ LET r == conn[c].loc.room
       IN conn' = IF room[r].State = "playing"
                  THEN Goto(c, "join_send",
                            [conn[c].loc EXCEPT !.roundNum = room[r].CurrentRound])
                  ELSE Goto(c, "idle", NoLocals)
    /\ sent' = <<>>
    /\ UNCHANGED <<rooms, room, player, tasks, ghost, globalSongs>>

\* still without the mutex: json.Marshal reads the cards through the slice,
\* and the frame is written to the joiner
join_room_send(c) ==
    /\ At(c, "join_send")
    /\ LET r == conn[c].loc.room
       IN sent' = <<Frame("game_started", {c}, r,
                          [cards |-> room[r].BoardCards,
                           round |-> conn[c].loc.roundNum])>>
    /\ conn' = Goto(c, "idle", NoLocals)
    /\ UNCHANGED <<rooms, room, player, tasks, ghost, globalSongs>>

(* ------------------------- deferred cleanup --------------------------- *)
\* ReadMessage fails.  With a room: under its mutex remove the player, note
\* whether the room is empty, hand the ownership on
disconnect(c) ==
    /\ At(c, "idle")
    /\ sent' = <<>>
    /\ IF conn[c].currentRoom = Nil \/ conn[c].currentPlayer = Nil
       THEN /\ conn' = [conn EXCEPT ![c] = [IdleConn EXCEPT !.pc = "closed"]]
            /\ UNCHANGED <<rooms, room, player, tasks, ghost>>
       ELSE LET r == conn[c].currentRoom
                me == player[conn[c].currentPlayer].ID
                left == Delete(room[r].Players, me)
                isEmpty == DOMAIN left = {}
            IN /\ Free(r)
               /\ \E owner \in (IF ~isEmpty /\ room[r].OwnerID = me
                                THEN DOMAIN left ELSE {room[r].OwnerID}) :
                     room' = [room EXCEPT ![r].Players = left, ![r].OwnerID = owner]
               /\ conn' = IF isEmpty
                          THEN Goto(c, "d_reg", [NoLocals EXCEPT !.room = r])
                          ELSE Goto(c, "bs_snap", [NoLocals EXCEPT !.room = r,
                                                                   !.ret = "closed"])
               /\ UNCHANGED <<rooms, player, tasks, ghost>>
    /\ UNCHANGED globalSongs

\* an unregistering that ends the round with globalMutex still held
disconnect_unregister_nested(c) ==
    /\ At(c, "d_reg")
    /\ Free(conn[c].loc.room)
    /\ rooms' = Delete(rooms, room[conn[c].loc.room].ID)
    /\ room' = [room EXCEPT ![conn[c].loc.room].RoundState = "ended"]
    /\ conn' = Goto(c, "d_end", conn[c].loc)
    /\ sent' = <<>>
    /\ UNCHANGED <<player, tasks, ghost, globalSongs>>

\* the room was empty: under globalMutex, delete(rooms, currentRoom.ID)
disconnect_unregister(c) ==
    /\ At(c, "d_reg")
    /\ rooms' = Delete(rooms, room[conn[c].loc.room].ID)
    /\ conn' = Goto(c, "d_end", conn[c].loc)
    /\ sent' = <<>>
    /\ UNCHANGED <<room, player, tasks, ghost, globalSongs>>

\* then under the room mutex: RoundState = "ended", the timer cancelled
disconnect_end(c) ==
    /\ At(c, "d_end")
    /\ Free(conn[c].loc.room)
    /\ LET r == conn[c].loc.room
       IN /\ room' = [room EXCEPT ![r].RoundState = "ended", ![r].TimerCancel = Nil]
          /\ tasks' = CancelTimer(tasks, room[r])
          /\ ghost' = [ghost EXCEPT ![r].reaped = TRUE]
    /\ conn' = [conn EXCEPT ![c] = [IdleConn EXCEPT !.pc = "closed"]]
    /\ sent' = <<>>
    /\ UNCHANGED <<rooms, player, globalSongs>>

\* the player names and ids the connections of the model give
NameOf(c) == <<"name", c>>
IdOf(c) == c

(* --------------------------- the songs -------------------------------- *)
\* Song.Duration of the song with this id (seconds)
DurationOf(id) == id

\* Card{ID, TitleOriginal, TitleTranslation, IsMatched: false}; the titles
\* are those of the song with this id
NewCard(id) == [id |-> id, isMatched |-> FALSE]

\* the count of matched cards startRound and endRound make of the board
MatchedCount(rm) ==
    Cardinality({i \in DOMAIN rm.BoardCards : rm.BoardCards[i].isMatched})

\* matchedCount >= 16
AllMatched(rm) == MatchedCount(rm) >= CardLimit

isSongOnBoard(rm) ==
    \E i \in DOMAIN rm.BoardCards :
        rm.BoardCards[i].id = rm.CurrentSong /\ ~rm.BoardCards[i].isMatched

\* a check that every answer passes
isAllAnswered_always(rm, pl) == TRUE

isAllAnswered(rm, pl) == \A o \in Range(rm.Players) : pl[o].HasAnswered

(* ------------------------- timer goroutines --------------------------- *)
\* kinds: "prepare" parked in the 5 s select of startRound, "prepare_fired"
\* woken by time.After and on its way into startCountdownAndPlay,
\* "countdown" in the 4 s sleep of startCountdownAndPlay, "round" parked in
\* the 90 s select, "round_fired" woken by time.After and waiting for the
\* mutex, "pause" the 3 s sleep of endRound, "restart" the same goroutine
\* between CurrentRound++ and startRound, "hung" a goroutine that waits for
\* a mutex it holds.  A goroutine parked in a select is woken by the first
\* of its two channels that becomes ready.
Task(id, kind, r, roundNum, over) ==
    [id |-> id, kind |-> kind, room |-> r, round |-> roundNum,
     cancel |-> FALSE, over |-> over]

\* make(chan struct{}): a channel no goroutine and no room refers to
FreshId(tk) ==
    LET used == {t.id : t \in tk} \cup {room[x].TimerCancel : x \in DOMAIN room}
    IN CHOOSE n \in 1..(Cardinality(used) + 1) :
           n \notin used /\ \A m \in 1..(n - 1) : m \in used

Without(tk, t) == {u \in tk : u.id # t.id}

(* ----------------------------- initGame ------------------------------- *)
\* a deal of the board from the tail of the pool
initGame_tail(rm) ==
    {[rm EXCEPT !.State = "playing", !.CurrentRound = 1, !.SongPool = pool,
                !.BoardCards = [i \in DOMAIN board |-> NewCard(board[i])]]
        : <<pool, board>> \in
            UNION {{<<SubSeq(all, 1, Min(PoolLimit, Len(all))), b>>
                       : b \in Perms({all[i] : i \in
                                  (Min(PoolLimit, Len(all)) + 1
                                     - Min(CardLimit, Min(PoolLimit, Len(all))))
                                  ..Min(PoolLimit, Len(all))})}
                   : all \in Perms(Range(globalSongs))}}

\* the boards and pools a shuffle of the catalogue can give
initGame(rm) ==
    {[rm EXCEPT !.State = "playing", !.CurrentRound = 1, !.SongPool = pool,
                !.BoardCards = [i \in DOMAIN board |-> NewCard(board[i])]]
        : <<pool, board>> \in
            UNION {{<<SubSeq(all, 1, Min(PoolLimit, Len(all))), b>>
                       : b \in Perms({all[i] : i \in
                                  1..Min(CardLimit, Min(PoolLimit, Len(all)))})}
                   : all \in Perms(Range(globalSongs))}}

(* ----------------------------- startRound ----------------------------- *)
\* a start anywhere in the song, its end included
StartTimes_whole(duration) == 0..duration

\* startTime := rand.Intn(max(1, Duration*3/4))
StartTimes(duration) ==
    LET maxStart == (duration * 3) \div 4
    IN 0..((IF maxStart <= 0 THEN 1 ELSE maxStart) - 1)

\* playDuration: at most 90 s
PlayDuration(duration, startTime) ==
    IF duration - startTime > 90 THEN 90 ELSE duration - startTime

\* a prepare_round that tells the song
PrepareFrame_withSong(r, rm, startTime) ==
    Frame("prepare_round", Members(rm), r,
          [round |-> rm.CurrentRound, startTime |-> startTime,
           playDuration |-> PlayDuration(DurationOf(rm.CurrentSong), startTime),
           songId |-> rm.CurrentSong])

PrepareFrame(r, rm, startTime) ==
    Frame("prepare_round", Members(rm), r,
          [round |-> rm.CurrentRound, startTime |-> startTime,
           playDuration |-> PlayDuration(DurationOf(rm.CurrentSong), startTime)])

Outcome(rm, pl, tk, frames, hung, began) ==
    [room |-> rm, player |-> pl, tasks |-> tk, sent |-> frames, hung |-> hung,
     began |-> began]

\* what one call of startRound(room) can make of the room, given the other
\* goroutines tk: nothing in an empty room; else the flags reset and
\* RoundState = "preparing", then game over (broadcastToRoom is called with
\* the mutex held, so the caller hangs), or no song left, or a song chosen,
\* prepare_round sent and the 5 s timer armed
startRound(r, tk) ==
    LET rm == room[r]
        pl == [o \in DOMAIN player |->
                  IF o \in Range(rm.Players)
                  THEN [player[o] EXCEPT !.HasAnswered = FALSE, !.IsReady = FALSE]
                  ELSE player[o]]
        rm1 == [rm EXCEPT !.RoundState = "preparing"]
        ch == FreshId(tk)
    IN IF DOMAIN rm.Players = {}
       THEN {Outcome(rm, player, tk, <<>>, FALSE, FALSE)}
       ELSE IF AllMatched(rm)
       THEN {Outcome([rm1 EXCEPT !.Mutex = "held"], pl, tk, <<>>, TRUE, TRUE)}
       ELSE IF Len(rm.SongPool) = 0
       THEN {Outcome(rm1, pl, tk, <<>>, FALSE, TRUE)}
       ELSE UNION {
              LET rm2 == [rm1 EXCEPT !.CurrentSongIndex = idx,
                                     !.CurrentSong = rm.SongPool[idx + 1],
                                     !.TimerCancel = ch]
              IN {Outcome(rm2, pl,
                          tk \cup {Task(ch, "prepare", r, rm.CurrentRound, FALSE)},
                          <<PrepareFrame(r, rm2, startTime)>>, FALSE, TRUE)
                    : startTime \in StartTimes(DurationOf(rm.SongPool[idx + 1]))}
              : idx \in 0..(Len(rm.SongPool) - 1)}

\* the history variable of a room when a round begins
BeginRound(r, began) ==
    IF began THEN [ghost EXCEPT ![r].cd = 0, ![r].ten = 0] ELSE ghost

(* ----------------------- startCountdownAndPlay ------------------------ *)
\* a check of the round number alone
StillPreparing_roundOnly(rm, roundNum) == rm.CurrentRound = roundNum

\* the generation check of the first critical section
StillPreparing(rm, roundNum) ==
    rm.RoundState = "preparing" /\ rm.CurrentRound = roundNum

\* no check after the 4 s sleep
StillCountdown_always(rm, roundNum) == TRUE

\* the generation check after the 4 s sleep
StillCountdown(rm, roundNum) ==
    rm.RoundState = "countdown" /\ rm.CurrentRound = roundNum

\* first critical section: preparing -> countdown, countdown_start
startCountdown(r) ==
    /\ room' = [room EXCEPT ![r].RoundState = "countdown"]
    /\ sent' = <<Frame("countdown_start", Members(room[r]), r, <<>>)>>
    /\ ghost' = [ghost EXCEPT ![r].cd = @ + 1]

\* second critical section: countdown -> playing, play_round, the 90 s timer
\* armed; tk are the other goroutines
startPlay(r, tk) ==
    LET ch == FreshId(tk)
    IN /\ room' = [room EXCEPT ![r].RoundState = "playing", ![r].TimerCancel = ch]
       /\ sent' = <<Frame("play_round", Members(room[r]), r, <<>>)>>
       /\ tasks' = tk \cup {Task(ch, "round", r, room[r].CurrentRound, FALSE)}

(* ------------------------------ endRound ------------------------------ *)
\* a removal of the head of the pool, whatever the current song
RemoveSong_first(rm, removeSong) ==
    IF removeSong /\ Len(rm.SongPool) > 0 THEN Tail(rm.SongPool) ELSE rm.SongPool

\* SongPool after `if removeSong { ... }`
RemoveSong(rm, removeSong) ==
    IF removeSong /\ rm.CurrentSongIndex >= 0
                  /\ rm.CurrentSongIndex < Len(rm.SongPool)
    THEN RemoveAt(rm.SongPool, rm.CurrentSongIndex + 1)
    ELSE rm.SongPool

RoundEndFrame(r, rm, reason, showAnswer) ==
    Frame("round_end", Members(rm), r,
          [reason |-> reason, correctSong |-> TitleOf(rm.CurrentSong),
           cards |-> rm.BoardCards, showAnswer |-> showAnswer])

\* endRound, called with the mutex held: rm and pl are the room and the
\* players as the caller left them, tk the other goroutines, pre the frames
\* the caller wrote before
endRound(r, rm, pl, tk, pre, reason, removeSong, showAnswer) ==
    LET rm1 == [rm EXCEPT !.RoundState = "ended", !.TimerCancel = Nil,
                          !.SongPool = RemoveSong(rm, removeSong)]
        tk1 == CancelTimer(tk, rm)
    IN /\ room' = [room EXCEPT ![r] = rm1]
       /\ player' = pl
       /\ tasks' = tk1 \cup {Task(FreshId(tk1), "pause", r, rm.CurrentRound,
                                  AllMatched(rm))}
       /\ sent' = pre \o <<RoundEndFrame(r, rm1, reason, showAnswer),
                           Frame("room_state_update", Members(rm), r,
                                 [players |-> PlayerList(rm, pl),
                                  ownerId |-> rm.OwnerID])>>

(* ---------------------- case "toggle_ready" --------------------------- *)
InRoom(c) == conn[c].currentRoom # Nil /\ conn[c].currentPlayer # Nil

\* a toggle_ready that flips the flag of any sender in any state
toggle_ready_any(c) ==
    /\ At(c, "idle")
    /\ InRoom(c)
    /\ Free(conn[c].currentRoom)
    /\ player' = [player EXCEPT ![conn[c].currentPlayer].GameReady = ~@]
    /\ conn' = Goto(c, "bs_snap", [NoLocals EXCEPT !.room = conn[c].currentRoom])
    /\ sent' = <<>>
    /\ UNCHANGED <<rooms, room, tasks, ghost, globalSongs>>

toggle_ready(c) ==
    /\ At(c, "idle")
    /\ InRoom(c)
    /\ Free(conn[c].currentRoom)
    /\ LET r == conn[c].currentRoom
           me == conn[c].currentPlayer
       IN /\ player' = IF room[r].OwnerID # player[me].ID /\ room[r].State = "waiting"
                       THEN [player EXCEPT ![me].GameReady = ~@]
                       ELSE player
          /\ conn' = Goto(c, "bs_snap", [NoLocals EXCEPT !.room = r])
    /\ sent' = <<>>
    /\ UNCHANGED <<rooms, room, tasks, ghost, globalSongs>>

(* ------------------------- case "chat" -------------------------------- *)
chat(c, text) ==
    /\ At(c, "idle")
    /\ InRoom(c)
    /\ Free(conn[c].currentRoom)
    /\ LET r == conn[c].currentRoom
       IN sent' = <<Frame("chat_receive", Members(room[r]), r,
                          [sender |-> player[conn[c].currentPlayer].Name,
                           text |-> text])>>
    /\ UNCHANGED <<rooms, room, player, conn, tasks, ghost, globalSongs>>

(* ----------------------- case "start_game" ---------------------------- *)
\* without the mutex: currentRoom.State == "waiting"
start_game(c) ==
    /\ At(c, "idle")
    /\ InRoom(c)
    /\ conn' = IF room[conn[c].currentRoom].State = "waiting"
               THEN Goto(c, "sg_check", [NoLocals EXCEPT !.room = conn[c].currentRoom])
               ELSE conn
    /\ sent' = <<>>
    /\ UNCHANGED <<rooms, room, player, tasks, ghost, globalSongs>>

\* the sender is the owner and every other player has GameReady
MayStart(rm, pl, me) ==
    /\ rm.OwnerID = pl[me].ID
    /\ \A o \in Range(rm.Players) : pl[o].ID # rm.OwnerID => pl[o].GameReady

\* under the mutex: the owner and the readiness checks
start_game_check(c) ==
    /\ At(c, "sg_check")
    /\ Free(conn[c].loc.room)
    /\ conn' = IF MayStart(room[conn[c].loc.room], player, conn[c].currentPlayer)
               THEN Goto(c, "sg_init", conn[c].loc)
               ELSE Goto(c, "idle", NoLocals)
    /\ sent' = <<>>
    /\ UNCHANGED <<rooms, room, player, tasks, ghost, globalSongs>>

\* initGame(currentRoom), under the mutex
start_game_init(c) ==
    /\ At(c, "sg_init")
    /\ Free(conn[c].loc.room)
    /\ \E rm \in initGame(room[conn[c].loc.room]) :
          room' = [room EXCEPT ![conn[c].loc.room] = rm]
    /\ conn' = Goto(c, "sg_bcast", conn[c].loc)
    /\ sent' = <<>>
    /\ UNCHANGED <<rooms, player, tasks, ghost, globalSongs>>

\* broadcastToRoom of game_started{cards, round}
start_game_broadcast(c) ==
    /\ At(c, "sg_bcast")
    /\ Free(conn[c].loc.room)
    /\ LET r == conn[c].loc.room
       IN sent' = <<Frame("game_started", Members(room[r]), r,
                          [cards |-> room[r].BoardCards,
                           round |-> room[r].CurrentRound])>>
    /\ conn' = Goto(c, "sg_round", conn[c].loc)
    /\ UNCHANGED <<rooms, room, player, tasks, ghost, globalSongs>>

\* startRound(currentRoom)
start_game_round(c) ==
    /\ At(c, "sg_round")
    /\ Free(conn[c].loc.room)
    /\ LET r == conn[c].loc.room
       IN \E out \in startRound(r, tasks) :
            /\ room' = [room EXCEPT ![r] = out.room]
            /\ player' = out.player
            /\ tasks' = out.tasks
            /\ sent' = out.sent
            /\ ghost' = BeginRound(r, out.began)
            /\ conn' = IF out.hung THEN Goto(c, "hung", conn[c].loc)
                       ELSE Goto(c, "idle", NoLocals)
    /\ UNCHANGED <<rooms, globalSongs>>

(* ---------------------- case "client_ready" --------------------------- *)
\* without the mutex: currentRoom.RoundState == "preparing"
client_ready(c) ==
    /\ At(c, "idle")
    /\ conn[c].currentRoom # Nil
    /\ conn' = IF room[conn[c].currentRoom].RoundState = "preparing"
               THEN Goto(c, "cr_lock", [NoLocals EXCEPT !.room = conn[c].currentRoom])
               ELSE conn
    /\ sent' = <<>>
    /\ UNCHANGED <<rooms, room, player, tasks, ghost, globalSongs>>

\* client_ready that closes the channel and keeps referring to it
client_ready_lock_keep(c) ==
    /\ At(c, "cr_lock")
    /\ Free(conn[c].loc.room)
    /\ LET r == conn[c].loc.room
           pl == [player EXCEPT ![conn[c].currentPlayer].IsReady = TRUE]
           allReady == \A o \in Range(room[r].Players) : pl[o].IsReady
       IN /\ player' = pl
          /\ IF allReady
             THEN /\ tasks' = CancelTimer(tasks, room[r])
                  /\ conn' = Goto(c, "cr_count", conn[c].loc)
             ELSE /\ conn' = Goto(c, "idle", NoLocals)
                  /\ UNCHANGED tasks
    /\ sent' = <<>>
    /\ UNCHANGED <<rooms, room, ghost, globalSongs>>

\* under the mutex: IsReady = true; if every player is ready, the timer is
\* cancelled and startCountdownAndPlay is called
client_ready_lock(c) ==
    /\ At(c, "cr_lock")
    /\ Free(conn[c].loc.room)
    /\ LET r == conn[c].loc.room
           pl == [player EXCEPT ![conn[c].currentPlayer].IsReady = TRUE]
           allReady == \A o \in Range(room[r].Players) : pl[o].IsReady
       IN /\ player' = pl
          /\ IF allReady
             THEN /\ tasks' = CancelTimer(tasks, room[r])
                  /\ room' = [room EXCEPT ![r].TimerCancel = Nil]
                  /\ conn' = Goto(c, "cr_count", conn[c].loc)
             ELSE /\ conn' = Goto(c, "idle", NoLocals)
                  /\ UNCHANGED <<room, tasks>>
    /\ sent' = <<>>
    /\ UNCHANGED <<rooms, ghost, globalSongs>>

\* startCountdownAndPlay(currentRoom, currentRoom.CurrentRound), first part
client_ready_countdown(c) ==
    /\ At(c, "cr_count")
    /\ Free(conn[c].loc.room)
    /\ LET r == conn[c].loc.room
       IN IF StillPreparing(room[r], room[r].CurrentRound)
          THEN /\ startCountdown(r)
               /\ conn' = Goto(c, "cr_sleep",
                               [conn[c].loc EXCEPT !.roundNum = room[r].CurrentRound])
          ELSE /\ conn' = Goto(c, "idle", NoLocals)
               /\ sent' = <<>>
               /\ UNCHANGED <<room, ghost>>
    /\ UNCHANGED <<rooms, player, tasks, globalSongs>>

\* the handler wakes from the 4 s sleep
client_ready_play(c) ==
    /\ At(c, "cr_sleep")
    /\ Free(conn[c].loc.room)
    /\ LET r == conn[c].loc.room
       IN IF StillCountdown(room[r], conn[c].loc.roundNum)
          THEN startPlay(r, tasks)
          ELSE /\ sent' = <<>>
               /\ UNCHANGED <<room, tasks>>
    /\ conn' = Goto(c, "idle", NoLocals)
    /\ UNCHANGED <<rooms, player, ghost, globalSongs>>

(* ------------------------- case "buzz" -------------------------------- *)
\* an answer accepted in any round state
MayAnswer_anyState(rm, p) == ~p.HasAnswered

\* an answer accepted again from the same player
MayAnswer_again(rm, p) == rm.RoundState = "playing"

\* only in a playing round and only once
MayAnswer(rm, p) == rm.RoundState = "playing" /\ ~p.HasAnswered

\* the first card with this id becomes matched
\* a match that turns every other card face up again
MatchCard_only(cards, cardID) ==
    [i \in DOMAIN cards |-> [cards[i] EXCEPT !.isMatched = (cards[i].id = cardID)]]

MatchCard(cards, cardID) ==
    LET hits == {i \in DOMAIN cards : cards[i].id = cardID}
    IN IF hits = {} THEN cards
       ELSE LET first == CHOOSE i \in hits : \A j \in hits : i <= j
            IN [cards EXCEPT ![first].isMatched = TRUE]

WrongFrame(c, r) == Frame("wrong_answer", {c}, r, <<>>)

buzz(c, cardID) ==
    /\ At(c, "idle")
    /\ conn[c].currentRoom # Nil
    /\ Free(conn[c].currentRoom)
    /\ LET r == conn[c].currentRoom
           me == conn[c].currentPlayer
       IN IF MayAnswer(room[r], player[me])
          THEN IF cardID = room[r].CurrentSong
               THEN /\ endRound(r,
                         [room[r] EXCEPT !.BoardCards = MatchCard(@, cardID)],
                         [player EXCEPT ![me].HasAnswered = TRUE,
                                        ![me].Score = @ + RewardBuzz],
                         tasks, <<>>, "correct", TRUE, TRUE)
                    /\ ghost' = [ghost EXCEPT ![r].ten = @ + 1]
               ELSE LET pl == [player EXCEPT ![me].HasAnswered = TRUE,
                                             ![me].Score = @ - Penalty]
                    IN /\ IF isAllAnswered(room[r], pl)
                          THEN endRound(r, room[r], pl, tasks, <<WrongFrame(c, r)>>,
                                        "all wrong", ~isSongOnBoard(room[r]), FALSE)
                          ELSE /\ player' = pl
                               /\ sent' = <<WrongFrame(c, r)>>
                               /\ UNCHANGED <<room, tasks>>
                       /\ UNCHANGED ghost
          ELSE /\ sent' = <<>>
               /\ UNCHANGED <<room, player, tasks, ghost>>
    /\ UNCHANGED <<rooms, conn, globalSongs>>

(* ------------------------ case "no_song" ------------------------------ *)
no_song(c) ==
    /\ At(c, "idle")
    /\ conn[c].currentRoom # Nil
    /\ Free(conn[c].currentRoom)
    /\ LET r == conn[c].currentRoom
           me == conn[c].currentPlayer
       IN IF MayAnswer(room[r], player[me])
          THEN IF ~isSongOnBoard(room[r])
               THEN LET pl == [player EXCEPT ![me].HasAnswered = TRUE,
                                             ![me].Score = @ + RewardNoSong]
                    IN IF isAllAnswered(room[r], pl)
                       THEN endRound(r, room[r], pl, tasks, <<>>, "ghost song",
                                     TRUE, FALSE)
                       ELSE /\ player' = pl
                            /\ sent' = <<>>
                            /\ UNCHANGED <<room, tasks>>
               ELSE LET pl == [player EXCEPT ![me].HasAnswered = TRUE,
                                             ![me].Score = @ - Penalty]
                    IN IF isAllAnswered(room[r], pl)
                       THEN endRound(r, room[r], pl, tasks, <<WrongFrame(c, r)>>,
                                     "song was on board", FALSE, FALSE)
                       ELSE /\ player' = pl
                            /\ sent' = <<WrongFrame(c, r)>>
                            /\ UNCHANGED <<room, tasks>>
          ELSE /\ sent' = <<>>
               /\ UNCHANGED <<room, player, tasks>>
    /\ UNCHANGED <<rooms, conn, ghost, globalSongs>>

(* ---------------- case "buzz" with a payload without cardId ----------- *)
\* the room mutex is taken; outside a playing round, or after an answer, the
\* payload is not read and the mutex is released.  Else the type assertion
\* msg.Payload["cardId"].(string) panics with the mutex held, and the
\* deferred cleanup, run by the panic, waits at its first
\* currentRoom.Mutex.Lock() for the mutex its own goroutine holds
buzz_malformed(c) ==
    /\ At(c, "idle")
    /\ conn[c].currentRoom # Nil
    /\ Free(conn[c].currentRoom)
    /\ LET r == conn[c].currentRoom
       IN IF MayAnswer(room[r], player[conn[c].currentPlayer])
          THEN /\ room' = [room EXCEPT ![r].Mutex = "held"]
               /\ conn' = Goto(c, "cleanup_lock", NoLocals)
          ELSE UNCHANGED <<room, conn>>
    /\ sent' = <<>>
    /\ UNCHANGED <<rooms, player, tasks, ghost, globalSongs>>

(* ------------------- a type the switch has no case for ---------------- *)
\* switch msg.Type has the cases create_room, join_room, chat, toggle_ready,
\* start_game, client_ready, buzz and no_song and no default: a message of
\* type restart_game is read and the loop goes on to the next message
restart_game(c) ==
    /\ At(c, "idle")
    /\ sent' = <<>>
    /\ UNCHANGED <<rooms, room, player, conn, tasks, ghost, globalSongs>>

(* --------------------- the timer goroutines act ----------------------- *)
\* case <-cancelCh: return
cancelled(t) ==
    /\ t.kind \in {"prepare", "round"}
    /\ t.cancel
    /\ tasks' = tasks \ {t}
    /\ sent' = <<>>
    /\ UNCHANGED <<rooms, room, player, conn, ghost, globalSongs>>

\* case <-time.After(..): the timer wakes the goroutine before any close
timer_fires(t) ==
    /\ t.kind \in {"prepare", "round"}
    /\ ~t.cancel
    /\ tasks' = Without(tasks, t) \cup
                   {[t EXCEPT !.kind = IF t.kind = "prepare" THEN "prepare_fired"
                                       ELSE "round_fired"]}
    /\ sent' = <<>>
    /\ UNCHANGED <<rooms, room, player, conn, ghost, globalSongs>>

\* startCountdownAndPlay(r, roundNum) of the 5 s goroutine, first part
prepare_timeout(t) ==
    /\ t.kind = "prepare_fired"
    /\ Free(t.room)
    /\ IF StillPreparing(room[t.room], t.round)
       THEN /\ startCountdown(t.room)
            /\ tasks' = Without(tasks, t) \cup {[t EXCEPT !.kind = "countdown"]}
       ELSE /\ tasks' = tasks \ {t}
            /\ sent' = <<>>
            /\ UNCHANGED <<room, ghost>>
    /\ UNCHANGED <<rooms, player, conn, globalSongs>>

\* the 5 s goroutine wakes from the 4 s sleep
countdown_done(t) ==
    /\ t.kind = "countdown"
    /\ Free(t.room)
    /\ IF StillCountdown(room[t.room], t.round)
       THEN startPlay(t.room, Without(tasks, t))
       ELSE /\ tasks' = tasks \ {t}
            /\ sent' = <<>>
            /\ UNCHANGED room
    /\ UNCHANGED <<rooms, player, conn, ghost, globalSongs>>

\* a 90 s goroutine that makes no check
StillPlaying_always(rm, roundNum) == TRUE

\* the generation check of the 90 s goroutine
StillPlaying(rm, roundNum) ==
    rm.RoundState = "playing" /\ rm.CurrentRound = roundNum

\* the 90 s goroutine, under the mutex
round_timeout(t) ==
    /\ t.kind = "round_fired"
    /\ Free(t.room)
    /\ IF StillPlaying(room[t.room], t.round)
       THEN endRound(t.room, room[t.room], player, Without(tasks, t), <<>>,
                     "time up", ~isSongOnBoard(room[t.room]), FALSE)
       ELSE /\ tasks' = tasks \ {t}
            /\ sent' = <<>>
            /\ UNCHANGED <<room, player>>
    /\ UNCHANGED <<rooms, conn, ghost, globalSongs>>

\* the goroutine of endRound after its 3 s: game_over by broadcastToRoom, or
\* CurrentRound++ under the mutex
pause_done(t) ==
    /\ t.kind = "pause"
    /\ Free(t.room)
    /\ IF t.over
       THEN /\ sent' = <<Frame("game_over", Members(room[t.room]), t.room, <<>>)>>
            /\ tasks' = tasks \ {t}
            /\ UNCHANGED room
       ELSE /\ room[t.room].CurrentRound < MaxRound
            /\ room' = [room EXCEPT ![t.room].CurrentRound = @ + 1]
            /\ tasks' = Without(tasks, t) \cup {[t EXCEPT !.kind = "restart"]}
            /\ sent' = <<>>
    /\ UNCHANGED <<rooms, player, conn, ghost, globalSongs>>

\* then startRound(r)
next_round(t) ==
    /\ t.kind = "restart"
    /\ Free(t.room)
    /\ \E out \in startRound(t.room, Without(tasks, t)) :
         /\ room' = [room EXCEPT ![t.room] = out.room]
         /\ player' = out.player
         /\ tasks' = IF out.hung THEN out.tasks \cup {[t EXCEPT !.kind = "hung"]}
                     ELSE out.tasks
         /\ sent' = out.sent
         /\ ghost' = BeginRound(t.room, out.began)
    /\ UNCHANGED <<rooms, conn, globalSongs>>

(* -------------------------- handleAudioProxy -------------------------- *)
\* GET /api/audio?roomId=..: 404 unless the room is registered and has a
\* CurrentSong (read without the mutex) and the file audio/<CurrentSong.ID>.m4a
\* is there, else that file
handleAudioProxy(roomID) ==
    /\ \E fileExists \in BOOLEAN :
          sent' = <<IF roomID \notin DOMAIN rooms
                       \/ room[rooms[roomID]].CurrentSong = Nil
                    THEN [type |-> "audio", status |-> 404, room |-> Nil, song |-> Nil]
                    ELSE [type |-> "audio", status |-> IF fileExists THEN 200 ELSE 404,
                          room |-> rooms[roomID],
                          song |-> room[rooms[roomID]].CurrentSong]>>
    /\ UNCHANGED <<rooms, room, player, conn, tasks, ghost, globalSongs>>

(* --------------------------- specifications --------------------------- *)
\* a connection creates a room, once
Create(c) ==
    \/ conn[c].entered = 0 /\ create_room(c, NameOf(c), IdOf(c))
    \/ create_room_add(c)

\* a connection asks to join a room, until it is let in
Join(c) ==
    \/ \E id \in RoomIDs :
          conn[c].entered = 0 /\ join_room(c, id, NameOf(c), IdOf(c))
    \/ join_room_add(c)
    \/ join_room_sync(c)

broadcastRoomState(c) ==
    \/ broadcastRoomState_snap(c)
    \/ broadcastRoomState_send(c)

\* toggle_ready in the lobby
Ready(c) ==
    InRoom(c) /\ room[conn[c].currentRoom].State = "waiting" /\ toggle_ready(c)

Start(c) ==
    \/ start_game(c)
    \/ start_game_check(c)
    \/ start_game_init(c)
    \/ start_game_broadcast(c)
    \/ start_game_round(c)

ClientReady(c) ==
    \/ client_ready(c)
    \/ client_ready_lock(c)
    \/ client_ready_countdown(c)
    \/ client_ready_play(c)

Answer(c) ==
    \/ \E cardID \in SongIDs : buzz(c, cardID)
    \/ no_song(c)

Leave(c) ==
    \/ disconnect(c)
    \/ disconnect_unregister(c)
    \/ disconnect_end(c)

\* the steps of the timer goroutines
TimerStep(t) ==
    \/ cancelled(t)
    \/ timer_fires(t)
    \/ prepare_timeout(t)
    \/ countdown_done(t)
    \/ round_timeout(t)
    \/ pause_done(t)
    \/ next_round(t)

\* connection 1 creates the room, the others join
Enter(c) == (c = 1 /\ Create(c)) \/ (c # 1 /\ Join(c)) \/ broadcastRoomState(c)

\* the same where a game may be going on: a late joiner is sent game_started
EnterGame(c) == Enter(c) \/ join_room_send(c)

\* the answers of a round: the owner stays, the others come and go, the
\* members talk and answer, the timers run
Next ==
    \/ \E c \in 1..GameConns :
          EnterGame(c) \/ Ready(c) \/ Start(c) \/ Answer(c) \/ chat(c, "hi")
    \/ \E c \in 2..GameConns : disconnect(c)
    \/ \E t \in tasks : TimerStep(t)

Spec == InitBoard /\ [][Next]_vars

\* the start of a round: the members report client_ready, the timers run
NextReady ==
    \/ \E c \in 1..GameConns : EnterGame(c) \/ Ready(c) \/ Start(c) \/ ClientReady(c)
    \/ \E t \in tasks : TimerStep(t)

SpecReady == InitBoard /\ [][NextReady]_vars

\* members leave while others join and the timers run
NextLeave ==
    \/ \E c \in 1..GameConns : EnterGame(c) \/ Start(c) \/ Leave(c)
    \/ \E t \in tasks : TimerStep(t)

SpecLeave == InitBoard /\ [][NextLeave]_vars

\* one player and the audio requests
NextAudio ==
    \/ Create(1) \/ broadcastRoomState(1) \/ Start(1) \/ Answer(1) \/ Leave(1)
    \/ \E t \in tasks : TimerStep(t)
    \/ \E id \in RoomIDs : handleAudioProxy(id)

SpecAudio == Init /\ [][NextAudio]_vars

\* one player who reports client_ready and never answers
NextLive ==
    \/ Create(1) \/ broadcastRoomState(1) \/ Start(1) \/ ClientReady(1)
    \/ \E t \in tasks : TimerStep(t)

\* a handler that has read its message runs on, and so does every goroutine
\* whose timer is due or whose channel is closed: only the next message of a
\* client may never come
HandlerRuns(c) ==
    \/ create_room_add(c)
    \/ broadcastRoomState(c)
    \/ start_game_check(c)
    \/ start_game_init(c)
    \/ start_game_broadcast(c)
    \/ start_game_round(c)
    \/ client_ready_lock(c)
    \/ client_ready_countdown(c)
    \/ client_ready_play(c)

SpecLive ==
    /\ Init
    /\ [][NextLive]_vars
    /\ WF_vars(HandlerRuns(1))
    /\ WF_vars(\E t \in tasks : TimerStep(t))

\* connection 1 creates a room, the others ask to join it
NextJoin == \E c \in Conns : Enter(c)

SpecJoin == InitBoard /\ [][NextJoin]_vars

\* the answers for every catalogue: the owner starts the game, a member may
\* come late, all answer, the timers run
NextAnswer ==
    \/ \E c \in 1..GameConns : EnterGame(c) \/ Start(c) \/ Answer(c)
    \/ \E t \in tasks : TimerStep(t)

SpecAnswer == Init /\ [][NextAnswer]_vars

\* one player, every catalogue: the player starts the game, reports
\* client_ready and answers, the timers run
NextSolo ==
    \/ Create(1) \/ broadcastRoomState(1) \/ Start(1) \/ ClientReady(1) \/ Answer(1)
    \/ \E t \in tasks : TimerStep(t)

SpecSolo == Init /\ [][NextSolo]_vars

\* one player plays a game to its end and asks for another
NextRestart ==
    \/ restart_game(1)
    \/ Create(1) \/ broadcastRoomState(1) \/ Start(1) \/ Answer(1)
    \/ \E t \in tasks : TimerStep(t)

SpecRestart == InitBoard /\ [][NextRestart]_vars

\* a joiner gives its own name; connections 2 and 3 may give the name of the
\* creator instead
JoinAs(c) ==
    \/ \E id \in RoomIDs, name \in {NameOf(c)} \cup {NameOf(1) : x \in {c} \cap 2..3} :
          conn[c].entered = 0 /\ join_room(c, id, name, IdOf(c))
    \/ join_room_add(c)
    \/ join_room_sync(c)

\* connection 1 creates a room, the others ask to join it under either name
NextNames ==
    \E c \in Conns :
        (c = 1 /\ Create(c)) \/ (c # 1 /\ JoinAs(c)) \/ broadcastRoomState(c)

SpecNames == InitBoard /\ [][NextNames]_vars

\* a joiner gives its own player id or the id of the creator
JoinWithId(c) ==
    \/ \E id \in RoomIDs, playerID \in {IdOf(c), IdOf(1)} :
          conn[c].entered = 0 /\ join_room(c, id, NameOf(c), playerID)
    \/ join_room_add(c)
    \/ join_room_sync(c)

\* connection 1 creates a room, two others join under either id, all may leave
NextIds ==
    \E c \in 1..3 :
        \/ c = 1 /\ Create(c)
        \/ c # 1 /\ JoinWithId(c)
        \/ broadcastRoomState(c)
        \/ Leave(c)

SpecIds == InitBoard /\ [][NextIds]_vars

\* two connections create rooms, also from inside a room, and leave
NextRooms ==
    \E c \in 1..GameConns :
        \/ conn[c].entered < MaxEntries /\ create_room(c, NameOf(c), IdOf(c))
        \/ create_room_add(c)
        \/ broadcastRoomState(c)
        \/ Leave(c)

SpecRooms == InitBoard /\ [][NextRooms]_vars

\* a game in which a member may send a buzz without a card id
NextMalformed ==
    \/ \E c \in 1..GameConns :
          EnterGame(c) \/ Start(c) \/ Answer(c) \/ buzz_malformed(c)
    \/ \E t \in tasks : TimerStep(t)

SpecMalformed == InitBoard /\ [][NextMalformed]_vars

\* connection 1 creates a room, connection 2 joins it, connection 3 asks to
\* join once connection 2 is in; all may leave
NextOwner ==
    \E c \in 1..3 :
        \/ c = 1 /\ Create(c)
        \/ c = 2 /\ Join(c)
        \/ c = 3 /\ conn[2].currentRoom # Nil /\ Join(c)
        \/ broadcastRoomState(c)
        \/ Leave(c)

SpecOwner == InitBoard /\ [][NextOwner]_vars

\* toggle_ready at any time: in the lobby and during the game
NextToggle ==
    \/ \E c \in 1..GameConns : EnterGame(c) \/ toggle_ready(c) \/ Start(c)
    \/ \E t \in tasks : TimerStep(t)

SpecToggle == InitBoard /\ [][NextToggle]_vars

\* connections 1 and 2 create a room each, connection 3 asks to join one
NextCreate ==
    \E c \in 1..3 :
        \/ c # 3 /\ Create(c)
        \/ c = 3 /\ Join(c)
        \/ broadcastRoomState(c)

SpecCreate == InitBoard /\ [][NextCreate]_vars

(* ------------------------------ properties ---------------------------- *)
Active == {"preparing", "countdown", "playing"}

\* the room a player object is in: the room its connection entered
RoomOf(o) == conn[ConnOf(o)].currentRoom

IsRoundEnd(f, r) == f.type = "round_end" /\ f.room = r

\* C1: a round gives the +10 at most once, and the step that gives it to a
\* player gives it to no one else, ends the round and sends a round_end with
\* showAnswer = true in which the board has a card of the buzzed id (the id
\* of the current song) and that card is matched.
C1_RewardStep ==
    \A o \in DOMAIN player :
        player'[o].Score = player[o].Score + RewardBuzz =>
            LET r == RoomOf(o)
            IN /\ room[r].RoundState = "playing"
               /\ room'[r].RoundState = "ended"
               /\ \A q \in DOMAIN player \ {o} : player'[q].Score = player[q].Score
               /\ \E i \in DOMAIN sent' :
                     /\ IsRoundEnd(sent'[i], r)
                     /\ sent'[i].payload.showAnswer
                     /\ \E k \in DOMAIN sent'[i].payload.cards :
                           /\ sent'[i].payload.cards[k].id = room[r].CurrentSong
                           /\ sent'[i].payload.cards[k].isMatched

C1_OneReward ==
    /\ [](\A r \in DOMAIN ghost : ghost[r].ten <= 1)
    /\ [][C1_RewardStep]_vars

\* C2: a score changes only in the step that sets the player's hasAnswered;
\* hasAnswered is cleared only by a prepare phase; and a buzz or no_song of a
\* player whose hasAnswered is set changes no room, no player and no timer
\* and sends nothing.
C2_Step ==
    /\ \A o \in DOMAIN player :
          /\ player'[o].Score # player[o].Score
                => ~player[o].HasAnswered /\ player'[o].HasAnswered
          /\ player[o].HasAnswered /\ ~player'[o].HasAnswered
                => room'[RoomOf(o)].RoundState = "preparing"
    /\ \A c \in Conns :
          (/\ InRoom(c)
           /\ player[conn[c].currentPlayer].HasAnswered
           /\ (no_song(c) \/ \E cardID \in SongIDs : buzz(c, cardID)))
              => UNCHANGED <<room, player, tasks>> /\ sent' = <<>>

C2_AnswerOnce == [][C2_Step]_vars

\* a player has answered wrong and the round goes on
C2_Witness ==
    \E o \in DOMAIN player :
        /\ player[o].HasAnswered
        /\ player[o].Score = 0 - Penalty
        /\ RoomOf(o) # Nil
        /\ room[RoomOf(o)].RoundState = "playing"

\* C3: in a round countdown_start is sent at most once and exactly once when
\* the round has left the prepare phase, each time with the one step from
\* preparing to countdown; a 5 s goroutine cancelled before its timer was due
\* leaves without touching the room, and so does one that comes after the
\* countdown has begun.
C3_Step ==
    /\ \A r \in DOMAIN room :
          LET starts == {i \in DOMAIN sent' : /\ sent'[i].type = "countdown_start"
                                             /\ sent'[i].room = r}
              moved == room[r].RoundState = "preparing"
                           /\ room'[r].RoundState = "countdown"
          IN /\ moved => ghost[r].cd = 0 /\ Cardinality(starts) = 1
             /\ starts # {} => moved
             /\ room'[r].RoundState = "countdown" => room[r].RoundState \in
                                                     {"preparing", "countdown"}
    /\ \A t \in tasks :
          (/\ t \notin tasks'
           /\ \/ t.kind = "prepare" /\ t.cancel
              \/ t.kind = "prepare_fired" /\ ghost[t.room].cd = 1)
              => UNCHANGED <<room, player, ghost>> /\ sent' = <<>>

C3_CountdownOnce ==
    /\ [](\A r \in DOMAIN room :
            /\ ghost[r].cd <= 1
            /\ room[r].RoundState \in {"countdown", "playing"} => ghost[r].cd = 1)
    /\ [][C3_Step]_vars

\* the last client_ready has begun the countdown while the 5 s timer, due in
\* the same moment, is on its way
C3_Witness ==
    \E t \in tasks : \E c \in Conns :
        /\ t.kind = "prepare_fired"
        /\ room[t.room].RoundState = "countdown"
        /\ room[t.room].CurrentRound = t.round
        /\ ghost[t.room].cd = 1
        /\ conn[c].pc = "cr_sleep"
        /\ conn[c].loc.room = t.room

\* C4: a round that is playing ends, in the room connection 1 created and
\* never leaves.
C4_RoundEnds ==
    (Obj(1, 1) \in DOMAIN room /\ room[Obj(1, 1)].RoundState = "playing")
        ~> (Obj(1, 1) \in DOMAIN room /\ room[Obj(1, 1)].RoundState = "ended")

\* C5: once the cleanup of an emptied room is done, a step of a timer
\* goroutine of that room sends nothing and does not move its roundState
\* away from ended.
C5_TimersDead ==
    [][\A t \in tasks :
          ghost[t.room].reaped /\ TimerStep(t)
              => /\ sent' = <<>>
                 /\ room[t.room].RoundState = "ended"
                       => room'[t.room].RoundState = "ended"]_vars

\* C6: a room with players is the room the registry has under its number.
C6_Registered ==
    \A r \in DOMAIN room :
        DOMAIN room[r].Players # {}
            => room[r].ID \in DOMAIN rooms /\ rooms[room[r].ID] = r

\* C7: the owner of a room with players is one of them.
C7_OwnerIsPlayer ==
    \A r \in DOMAIN room :
        DOMAIN room[r].Players # {} => room[r].OwnerID \in DOMAIN room[r].Players

\* C8: no room has more than 4 players.
C8_AtMostFour ==
    \A r \in DOMAIN room : Cardinality(DOMAIN room[r].Players) <= MaxPlayers

\* C9: the audio gate answers 200 only for a room in an active round.
C9_AudioGate ==
    \A i \in DOMAIN sent :
        sent[i].type = "audio" /\ sent[i].status = 200
            => room[sent[i].room].RoundState \in Active

\* the payload fields that name one song
NamesSong(f) == DOMAIN f.payload \cap {"correctSong", "song", "songId"} # {}

C11_Step ==
    /\ \A r \in DOMAIN room :
          (room[r].State = "waiting" /\ room'[r].State = "playing") =>
              /\ \E c \in Conns :
                    /\ conn[c].pc = "sg_init"
                    /\ conn[c].loc.room = r
                    /\ conn[c].currentPlayer \in Range(room[r].Players)
                    /\ player[conn[c].currentPlayer].ID = room[r].OwnerID
              /\ \A o \in Range(room[r].Players) :
                    player[o].ID # room[r].OwnerID => player[o].GameReady
    /\ \A c \in Conns :
          (\/ /\ start_game(c)
              /\ room[conn[c].currentRoom].State # "waiting"
           \/ /\ start_game_check(c)
              /\ ~MayStart(room[conn[c].loc.room], player, conn[c].currentPlayer))
              => /\ UNCHANGED <<room, player, tasks>>
                 /\ sent' = <<>>
                 /\ conn'[c].pc = "idle"

C11_StartChecked == [][C11_Step]_vars

\* a player who may answer: the round is playing and the player has not
\* answered in it
Answering(c) ==
    /\ conn[c].currentRoom # Nil
    /\ room[conn[c].currentRoom].RoundState = "playing"
    /\ ~player[conn[c].currentPlayer].HasAnswered

\* the round of room r is ended by this step with a round_end of this
\* showAnswer
EndsWith(r, showAnswer) ==
    /\ room'[r].RoundState = "ended"
    /\ \E i \in DOMAIN sent' :
          IsRoundEnd(sent'[i], r) /\ sent'[i].payload.showAnswer = showAnswer

AllAnsweredAfter(r) ==
    \A o \in Range(room'[r].Players) : player'[o].HasAnswered

\* C12: a buzz of a player who may answer sets hasAnswered; with the id of
\* the current song it gives +10, the board has a card of that id and the
\* card is matched, the song is out of the pool and the round ends with
\* showAnswer = true; with another id it gives -5 and a wrong_answer to the
\* sender alone, and the round ends, with showAnswer = false, exactly if
\* every player of the room has then answered.
C12_Step ==
    \A c \in Conns : \A cardID \in SongIDs :
        (Answering(c) /\ buzz(c, cardID)) =>
            LET r == conn[c].currentRoom
                me == conn[c].currentPlayer
            IN /\ player'[me].HasAnswered
               /\ IF cardID = room[r].CurrentSong
                  THEN /\ player'[me].Score = player[me].Score + RewardBuzz
                       /\ \E k \in DOMAIN room'[r].BoardCards :
                             /\ room'[r].BoardCards[k].id = cardID
                             /\ room'[r].BoardCards[k].isMatched
                       /\ cardID \notin Range(room'[r].SongPool)
                       /\ EndsWith(r, TRUE)
                  ELSE /\ player'[me].Score = player[me].Score - Penalty
                       /\ \E i \in DOMAIN sent' :
                             sent'[i].type = "wrong_answer" /\ sent'[i].to = {c}
                       /\ IF AllAnsweredAfter(r)
                          THEN EndsWith(r, FALSE)
                          ELSE /\ room'[r].RoundState = "playing"
                               /\ UNCHANGED room

C12_Buzz == [][C12_Step]_vars

\* the current song of room r is the id of a card not yet matched
OnBoard(r) ==
    \E k \in DOMAIN room[r].BoardCards :
        /\ room[r].BoardCards[k].id = room[r].CurrentSong
        /\ ~room[r].BoardCards[k].isMatched

\* C13: a no_song of a player who may answer sets hasAnswered and gives +5 if
\* the current song is not the id of an unmatched card, else -5 and a
\* wrong_answer to the sender alone; the round ends, with showAnswer = false,
\* if every player of the room has then answered, and goes on unchanged if
\* not.
C13_Step ==
    \A c \in Conns :
        (Answering(c) /\ no_song(c)) =>
            LET r == conn[c].currentRoom
                me == conn[c].currentPlayer
            IN /\ player'[me].HasAnswered
               /\ IF OnBoard(r)
                  THEN /\ player'[me].Score = player[me].Score - Penalty
                       /\ \E i \in DOMAIN sent' :
                             sent'[i].type = "wrong_answer" /\ sent'[i].to = {c}
                  ELSE /\ player'[me].Score = player[me].Score + RewardNoSong
                       /\ \A i \in DOMAIN sent' : sent'[i].type # "wrong_answer"
               /\ \A o \in DOMAIN player \ {me} : player'[o] = player[o]
               /\ IF AllAnsweredAfter(r)
                  THEN EndsWith(r, FALSE) /\ ~EndsWith(r, TRUE)
                  ELSE room'[r].RoundState = "playing" /\ UNCHANGED room

C13_NoSong == [][C13_Step]_vars

\* two players have answered no_song to a song that has no card: +5 each,
\* and the second answer has ended the round
C13_Witness ==
    \E r \in DOMAIN room :
        /\ room[r].RoundState = "ended"
        /\ room[r].CurrentRound = 1
        /\ Cardinality(DOMAIN room[r].Players) = 2
        /\ \A o \in Range(room[r].Players) :
              player[o].HasAnswered /\ player[o].Score = RewardNoSong
        /\ \A k \in DOMAIN room[r].BoardCards :
              room[r].BoardCards[k].id # room[r].CurrentSong
        /\ \E i \in DOMAIN sent :
              IsRoundEnd(sent[i], r) /\ ~sent[i].payload.showAnswer

\* C14: a buzz or a no_song handled while the sender's room is not playing
\* changes no room, no player, no timer and not the registry, and sends
\* nothing.
C14_Step ==
    \A c \in Conns :
        (/\ conn[c].currentRoom # Nil
         /\ room[conn[c].currentRoom].RoundState # "playing"
         /\ (no_song(c) \/ \E cardID \in SongIDs : buzz(c, cardID)))
            => UNCHANGED <<rooms, room, player, tasks>> /\ sent' = <<>>

C14_Dropped == [][C14_Step]_vars

\* a correct buzz has ended the round of two players; the other player has
\* not answered, and a buzz of the same card would come too late
C14_Witness ==
    \E r \in DOMAIN room : \E o \in Range(room[r].Players) :
        /\ room[r].RoundState = "ended"
        /\ ghost[r].ten = 1
        /\ Cardinality(DOMAIN room[r].Players) = 2
        /\ ~player[o].HasAnswered
        /\ player[o].Score = 0
        /\ conn[ConnOf(o)].pc = "idle"

\* C15: in a step that ends a round with round_end, the current song leaves
\* the song pool if the step gave the +10 or if the song is not the id of an
\* unmatched card: the pool then loses exactly one element, and that
\* element is the current song; otherwise the pool is unchanged.
C15_Step ==
    \A r \in DOMAIN room :
        (\E i \in DOMAIN sent' : IsRoundEnd(sent'[i], r)) =>
            LET pool == room[r].SongPool
                buzzed == \E o \in Range(room[r].Players) :
                              player'[o].Score = player[o].Score + RewardBuzz
            IN IF buzzed \/ ~OnBoard(r)
               THEN \E i \in DOMAIN pool :
                       /\ pool[i] = room[r].CurrentSong
                       /\ room'[r].SongPool = RemoveAt(pool, i)
               ELSE room'[r].SongPool = pool

C15_SongRemoved == [][C15_Step]_vars


\* every card of the board of room r is matched
FullBoard(r) ==
    /\ Len(room[r].BoardCards) > 0
    /\ \A i \in DOMAIN room[r].BoardCards : room[r].BoardCards[i].isMatched

\* C16: when the goroutine of a finished round wakes from the pause between
\* rounds, a fully matched board (of 16 cards, or of as many cards as the
\* catalogue has songs) makes it broadcast game_over, and any other board
\* makes it raise currentRound by exactly one; no prepare_round is sent for
\* a room whose board is fully matched.
C16_Step ==
    /\ \A t \in tasks :
          (t.kind = "pause" /\ ~\E u \in tasks' : u.id = t.id /\ u.kind = "pause") =>
             IF FullBoard(t.room)
             THEN /\ \E i \in DOMAIN sent' :
                        sent'[i].type = "game_over" /\ sent'[i].room = t.room
                  /\ room'[t.room].CurrentRound = room[t.room].CurrentRound
             ELSE room'[t.room].CurrentRound = room[t.room].CurrentRound + 1
    /\ \A r \in DOMAIN room :
          (\E i \in DOMAIN sent' :
               sent'[i].type = "prepare_round" /\ sent'[i].room = r) =>
             ~FullBoard(r)

C16_GameOver == [][C16_Step]_vars


\* the game of room r is over: the last round has ended, every card is matched
GameIsOver(r) == room[r].RoundState = "ended" /\ FullBoard(r)

\* C17: a restart_game handled for a member of a room whose game is over
\* puts the room back to state waiting, clears the readiness of its players
\* and broadcasts game_reset.
C17_Step ==
    \A c \in Conns :
        (restart_game(c) /\ InRoom(c) /\ GameIsOver(conn[c].currentRoom)) =>
            LET r == conn[c].currentRoom
            IN /\ room'[r].State = "waiting"
               /\ \A o \in Range(room[r].Players) : ~player'[o].GameReady
               /\ \E i \in DOMAIN sent' :
                     sent'[i].type = "game_reset" /\ sent'[i].room = r

C17_Restart == [][C17_Step]_vars


\* the ids of the cards of a board, in the order of the board
CardIds(rm) == [i \in DOMAIN rm.BoardCards |-> rm.BoardCards[i].id]

\* C18: a room in state playing has a board of 16 cards, or of as many cards
\* as the catalogue has songs, with pairwise different ids; when the game
\* begins the ids are ids of the song pool; from then on a step keeps the
\* ids of the board and never turns a matched card back to unmatched.
C18_Step ==
    \A r \in DOMAIN room' :
        room'[r].State = "playing" =>
            LET new == room'[r].BoardCards
            IN /\ Len(new) = Min(CardLimit, Len(globalSongs))
               /\ \A i, j \in DOMAIN new : new[i].id = new[j].id => i = j
               /\ IF r \in DOMAIN room /\ room[r].State = "playing"
                  THEN /\ CardIds(room'[r]) = CardIds(room[r])
                       /\ \A i \in DOMAIN new :
                             room[r].BoardCards[i].isMatched => new[i].isMatched
                       /\ MatchedCount(room'[r]) >= MatchedCount(room[r])
                  ELSE Range(CardIds(room'[r])) \subseteq Range(room'[r].SongPool)

C18_BoardKept == [][C18_Step]_vars

\* a later round is played with a card matched in an earlier round
C18_Witness ==
    \E r \in DOMAIN room :
        /\ room[r].State = "playing"
        /\ room[r].CurrentRound = 2
        /\ room[r].RoundState = "playing"
        /\ \E i, j \in DOMAIN room[r].BoardCards :
              room[r].BoardCards[i].isMatched /\ ~room[r].BoardCards[j].isMatched


\* the step sends connection c one error frame and leaves the registry, the
\* rooms, the players and the membership of c as they are
Rejected(c) ==
    /\ Len(sent') = 1
    /\ sent'[1].type = "error"
    /\ sent'[1].to = {c}
    /\ rooms' = rooms
    /\ room' = room
    /\ player' = player
    /\ conn'[c].currentRoom = conn[c].currentRoom
    /\ conn'[c].currentPlayer = conn[c].currentPlayer
    /\ conn'[c].entered = conn[c].entered

\* C19: a join_room for a room id that is not in the registry, for a room
\* that has four players, or under a name that a player of the room bears,
\* sends the requester one error frame and changes no room, no player and
\* no membership.
C19_Step ==
    \A c \in Conns :
        /\ \A id \in RoomIDs, name \in {NameOf(c), NameOf(1)} :
              (join_room(c, id, name, IdOf(c)) /\ id \notin DOMAIN rooms) =>
                  Rejected(c)
        /\ (At(c, "join_add") /\ conn'[c] # conn[c]
              /\ LET rm == room[conn[c].loc.room]
                 IN \/ Cardinality(DOMAIN rm.Players) >= MaxPlayers
                    \/ \E q \in Range(rm.Players) :
                          player[q].Name = conn[c].loc.playerName) =>
              Rejected(c)

C19_JoinRejected == [][C19_Step]_vars

\* a join under the name of a member has just been turned down
C19_Witness ==
    \E c \in Conns :
        /\ sent = <<ErrorFrame(c, "name taken")>>
        /\ conn[c].currentRoom = Nil
        /\ \E r \in DOMAIN room :
              \E q \in Range(room[r].Players) : player[q].Name = NameOf(1)


\* C20: no two players of one room bear the same name.
C20_UniqueNames ==
    \A r \in DOMAIN room :
        \A p, q \in Range(room[r].Players) :
            player[p].Name = player[q].Name => p = q


\* C21: a join_room under a player id that is a key of the room's players
\* map does not make the requester a member and leaves the entry of that
\* key, and the player it names, as they are; and a connection that closes
\* removes no entry that names the player of another connection.
C21_Step ==
    \A c \in Conns :
        /\ (At(c, "join_add") /\ conn'[c] # conn[c]
              /\ conn[c].loc.playerID \in DOMAIN room[conn[c].loc.room].Players) =>
              LET r == conn[c].loc.room
                  k == conn[c].loc.playerID
              IN /\ k \in DOMAIN room'[r].Players
                 /\ room'[r].Players[k] = room[r].Players[k]
                 /\ player'[room[r].Players[k]] = player[room[r].Players[k]]
                 /\ conn'[c].currentRoom = conn[c].currentRoom
        /\ (At(c, "idle") /\ InRoom(c) /\ conn'[c].pc \in {"d_reg", "bs_snap", "closed"}
              /\ conn'[c].loc.ret # "idle") =>
              LET r == conn[c].currentRoom
              IN \A k \in DOMAIN room[r].Players :
                    room[r].Players[k] # conn[c].currentPlayer =>
                        /\ k \in DOMAIN room'[r].Players
                        /\ room'[r].Players[k] = room[r].Players[k]

C21_NoDuplicateId == [][C21_Step]_vars


\* the rooms that have a player of connection c
RoomsOf(c) ==
    {r \in DOMAIN room : \E o \in Range(room[r].Players) : ConnOf(o) = c}

\* C22: a connection has a player in at most one room, and a connection
\* that is closed has a player in no room.
C22_OneRoom ==
    \A c \in Conns :
        /\ Cardinality(RoomsOf(c)) <= 1
        /\ conn[c].pc = "closed" => RoomsOf(c) = {}


\* C23: a buzz without a card id, handled for a member of a room, changes
\* nothing of the room and leaves the room mutex free, so that the other
\* members and the timers of the room can go on.
C23_Step ==
    \A c \in Conns :
        buzz_malformed(c) =>
            LET r == conn[c].currentRoom
            IN /\ Free(r)'
               /\ [room'[r] EXCEPT !.Players = <<>>, !.OwnerID = Nil]
                     = [room[r] EXCEPT !.Players = <<>>, !.OwnerID = Nil]

C23_Contained == [][C23_Step]_vars


\* the player of the connection that came first among the players ps, where
\* the connections come in the order of their numbers
Earliest(ps) == CHOOSE o \in ps : \A q \in ps : ConnOf(o) <= ConnOf(q)

\* C24: when the connection of the owner closes and players remain, the
\* owner id becomes the id of the remaining player who joined first.
C24_Step ==
    \A c \in Conns :
        (At(c, "idle") /\ InRoom(c) /\ conn'[c].pc = "bs_snap"
            /\ conn'[c].loc.ret = "closed"
            /\ room[conn[c].currentRoom].OwnerID = player[conn[c].currentPlayer].ID) =>
            LET r == conn[c].currentRoom
            IN room'[r].OwnerID = player[Earliest(Range(room'[r].Players))].ID

C24_OwnerHandOver == [][C24_Step]_vars


\* C25: a toggle_ready flips the gameReady of its sender if the room is in
\* state waiting and the sender is not the owner, and else flips nothing; in
\* both cases it changes nothing else of any player, room or timer.
C25_Step ==
    \A c \in Conns :
        (At(c, "idle") /\ InRoom(c) /\ conn'[c].pc = "bs_snap"
            /\ conn'[c].loc.ret = "idle") =>
            LET r == conn[c].currentRoom
                me == conn[c].currentPlayer
                flips == room[r].State = "waiting" /\ room[r].OwnerID # player[me].ID
            IN /\ player'[me].GameReady = (IF flips THEN ~player[me].GameReady
                                          ELSE player[me].GameReady)
               /\ [player'[me] EXCEPT !.GameReady = FALSE]
                     = [player[me] EXCEPT !.GameReady = FALSE]
               /\ \A o \in DOMAIN player : o # me => player'[o] = player[o]
               /\ room' = room
               /\ rooms' = rooms
               /\ tasks' = tasks

C25_Toggle == [][C25_Step]_vars

\* the owner's toggle_ready during the game has left the owner not ready
C25_Witness ==
    \E c \in Conns :
        /\ InRoom(c)
        /\ conn[c].pc = "bs_snap"
        /\ conn[c].loc.ret = "idle"
        /\ room[conn[c].currentRoom].State = "playing"
        /\ room[conn[c].currentRoom].OwnerID = player[conn[c].currentPlayer].ID
        /\ ~player[conn[c].currentPlayer].GameReady


\* C26: a join_room accepted while the room is in state playing adds the
\* joiner with score 0 and hasAnswered false; the room_state_update that
\* follows goes to every member and lists the joiner; and the game_started
\* written to the joiner alone carries the board and the round the room has
\* when the frame is written.
C26_Step ==
    \A c \in Conns :
        /\ (At(c, "join_add") /\ conn'[c].pc = "bs_snap"
              /\ room[conn[c].loc.room].State = "playing") =>
              LET o == conn'[c].currentPlayer
              IN /\ o \in Range(room'[conn[c].loc.room].Players)
                 /\ player'[o].Score = 0
                 /\ ~player'[o].HasAnswered
        /\ (At(c, "bs_send") /\ conn[c].loc.ret = "join_sync" /\ conn'[c] # conn[c]
              /\ room[conn[c].loc.room].State = "playing") =>
              /\ Len(sent') = 1
              /\ sent'[1].type = "room_state_update"
              /\ sent'[1].to = Members(room[conn[c].loc.room])
              /\ \E e \in sent'[1].payload.players :
                    e.id = player[conn[c].currentPlayer].ID
        /\ (At(c, "join_send") /\ conn'[c] # conn[c]) =>
              /\ Len(sent') = 1
              /\ sent'[1].type = "game_started"
              /\ sent'[1].to = {c}
              /\ sent'[1].payload.cards = room[conn[c].loc.room].BoardCards
              /\ sent'[1].payload.round = room[conn[c].loc.room].CurrentRound

C26_LateJoin == [][C26_Step]_vars


\* the step registers a room for connection c under an id that was free and
\* leaves every other entry of the registry as it is
Registers(c) ==
    \E id \in RoomIDs :
        /\ id \notin DOMAIN rooms
        /\ DOMAIN rooms' = DOMAIN rooms \cup {id}
        /\ \A k \in DOMAIN rooms : rooms'[k] = rooms[k]
        /\ rooms'[id] = conn'[c].loc.room
        /\ rooms'[id] \notin DOMAIN room

\* C27: create_room registers its room under an id that is not in the
\* registry and overwrites no entry; when the creator has been added, the
\* room has the creator as its only player and as its owner and is in state
\* waiting.
C27_Step ==
    \A c \in Conns :
        /\ (At(c, "idle") /\ conn'[c].pc = "create_add") => Registers(c)
        /\ (At(c, "create_add") /\ conn'[c] # conn[c]) =>
              LET rm == room'[conn[c].loc.room]
              IN /\ Range(rm.Players) = {conn'[c].currentPlayer}
                 /\ rm.OwnerID = player'[conn'[c].currentPlayer].ID
                 /\ rm.State = "waiting"

C27_FreshRoom == [][C27_Step]_vars


\* C28: a client_ready that takes the room mutex while the round is not
\* preparing changes no player, no room and no timer; and the 90 s timer of a
\* round is cancelled only by a step that ends the round.
C28_Step ==
    /\ \A c \in Conns :
          (At(c, "cr_lock") /\ conn'[c] # conn[c]
              /\ room[conn[c].loc.room].RoundState # "preparing") =>
              /\ player' = player
              /\ room' = room
              /\ tasks' = tasks
    /\ \A t \in tasks :
          (t.kind = "round" /\ ~t.cancel
              /\ \E u \in tasks' : u.id = t.id /\ u.kind = "round" /\ u.cancel) =>
              room'[t.room].RoundState = "ended"

C28_StaleReady == [][C28_Step]_vars


\* C29: no goroutine waits for a room mutex that it holds itself: neither a
\* timer goroutine nor a handler is stopped at a Lock inside its own
\* critical section.
C29_NoSelfLock ==
    /\ \A t \in tasks : t.kind # "hung"
    /\ \A c \in Conns : conn[c].pc \notin {"hung", "cleanup_lock"}


\* the step is a critical section of globalMutex of the handler of c: the
\* registration of create_room, the lookup of join_room, the delete of the
\* cleanup
RegistrySection(c) ==
    \/ At(c, "idle") /\ conn'[c].pc \in {"create_add", "join_add"}
    \/ At(c, "idle") /\ sent' = <<ErrorFrame(c, "room not found")>>
    \/ At(c, "d_reg") /\ conn'[c].pc = "d_end"

\* C30: a critical section of the registry mutex contains none of a room
\* mutex and the reverse: a step that runs under globalMutex changes nothing
\* that a room mutex guards (no room that exists, no player, no timer), and
\* only such a step changes the registry.
C30_Step ==
    /\ \A c \in Conns :
          RegistrySection(c) =>
              /\ \A r \in DOMAIN room : room'[r] = room[r]
              /\ player' = player
              /\ tasks' = tasks
    /\ rooms' # rooms => \E c \in Conns : RegistrySection(c)

C31_ReadsUnderMutex ==
    \A c \in Conns :
        /\ conn[c].pc = "cr_lock" => room[conn[c].loc.room].RoundState = "preparing"
        /\ conn[c].pc = "sg_check" => room[conn[c].loc.room].State = "waiting"
        /\ conn[c].pc = "join_send" =>
              /\ room[conn[c].loc.room].State = "playing"
              /\ room[conn[c].loc.room].CurrentRound = conn[c].loc.roundNum


\* the round state a timer goroutine of this kind expects
Expected(kind) ==
    CASE kind = "prepare_fired" -> "preparing"
      [] kind = "countdown" -> "countdown"
      [] kind = "round_fired" -> "playing"

\* goroutine t takes its step: it is no longer in flight in its kind
Runs(t) == ~\E u \in tasks' : u.id = t.id /\ u.kind = t.kind

\* C32: a timer goroutine armed for round n that takes the mutex when the
\* room is not in the round state it expects, or not in round n, changes no
\* room and no player, sends no frame and is gone; the same holds for a
\* handler that wakes from the 4 s countdown sleep.
C32_Step ==
    /\ \A t \in tasks :
          (t.kind \in {"prepare_fired", "countdown", "round_fired"} /\ Runs(t)
              /\ ~(room[t.room].RoundState = Expected(t.kind)
                    /\ room[t.room].CurrentRound = t.round)) =>
              /\ room' = room
              /\ player' = player
              /\ sent' = <<>>
              /\ tasks' = tasks \ {t}
    /\ \A c \in Conns :
          (At(c, "cr_sleep") /\ conn'[c] # conn[c]
              /\ ~(room[conn[c].loc.room].RoundState = "countdown"
                    /\ room[conn[c].loc.room].CurrentRound = conn[c].loc.roundNum)) =>
              /\ room' = room
              /\ player' = player
              /\ sent' = <<>>
              /\ tasks' = tasks

C32_StaleTimer == [][C32_Step]_vars

\* the 90 s timer of a round was due and its goroutine is about to take the
\* mutex of a room whose round has ended meanwhile
C32_Witness ==
    \E t \in tasks :
        /\ t.kind = "round_fired"
        /\ room[t.room].RoundState = "ended"
        /\ room[t.room].CurrentRound = t.round
        /\ Free(t.room)


\* the cancellable timers in flight for room r: the 5 s and the 90 s
\* goroutines whose channel is open and whose callback has not run
InFlight(r) ==
    {t \in tasks : /\ t.room = r
                   /\ t.kind \in {"prepare", "prepare_fired", "round", "round_fired"}
                   /\ ~t.cancel}

\* C33: the timerCancel of a room is set if and only if exactly one
\* cancellable timer is in flight for the room, it is then the channel of
\* that timer, and there are never two.
C33_TimerCancel ==
    \A r \in DOMAIN room :
        /\ Cardinality(InFlight(r)) <= 1
        /\ room[r].TimerCancel # Nil <=> Cardinality(InFlight(r)) = 1
        /\ \A t \in InFlight(r) : room[r].TimerCancel = t.id


\* the cancellations: the players come and leave until the room is empty,
\* the first one starts the game and reports client_ready, the timers run
\* and end the round
NextCancel ==
    \/ \E c \in 1..GameConns : EnterGame(c) \/ Leave(c)
    \/ Start(1) \/ ClientReady(1)
    \/ \E t \in tasks : TimerStep(t)

SpecCancel == InitBoard /\ [][NextCancel]_vars

\* the channel has been closed and its goroutine has not yet returned
Closed(ch) == \E t \in tasks : t.id = ch /\ t.cancel

\* C34: no cancellation channel is closed twice: every close is of the
\* room's timerCancel, and the channel the room's timerCancel refers to is
\* never one that has already been closed.
C34_NoDoubleClose ==
    \A r \in DOMAIN room : room[r].TimerCancel # Nil => ~Closed(room[r].TimerCancel)

\* a timer has been cancelled by a close and a later timer is armed for the
\* same room
C34_Witness ==
    \E r \in DOMAIN room, t \in tasks :
        /\ t.room = r /\ t.cancel
        /\ room[r].TimerCancel # Nil
        /\ room[r].TimerCancel # t.id


\* the round frames and the position of each in a round
RoundFrames == {"prepare_round", "countdown_start", "play_round", "round_end"}

\* the moves of RoundState of one round and to the next
Cycle ==
    {<<"", "preparing">>, <<"preparing", "countdown">>, <<"countdown", "playing">>,
     <<"playing", "ended">>, <<"ended", "preparing">>}

\* the move of RoundState that goes with a round frame
MoveOf(type) ==
    CASE type = "prepare_round" -> {<<"", "preparing">>, <<"ended", "preparing">>}
      [] type = "countdown_start" -> {<<"preparing", "countdown">>}
      [] type = "play_round" -> {<<"countdown", "playing">>}
      [] type = "round_end" -> {<<"playing", "ended">>}

C35_Step ==
    \A r \in DOMAIN room :
        LET a == room[r]
            b == room'[r]
            fr == {i \in DOMAIN sent' : sent'[i].room = r
                                        /\ sent'[i].type \in RoundFrames}
        IN /\ a.RoundState # b.RoundState =>
                 \/ <<a.RoundState, b.RoundState>> \in Cycle
                 \* the cleanup of the player who left the room empty
                 \/ /\ b.RoundState = "ended"
                    /\ \E c \in Conns : At(c, "d_end") /\ conn[c].loc.room = r
                                         /\ conn'[c].pc = "closed"
           \* a round is begun after an earlier one only by the goroutine of
           \* that round's endRound, after its CurrentRound++, or by the
           \* start_game of a room that has played nothing yet
           /\ a.RoundState = "ended" /\ b.RoundState = "preparing" =>
                 \/ \E t \in tasks \ tasks' :
                       t.kind = "restart" /\ t.room = r /\ t.round < b.CurrentRound
                 \/ /\ \E c \in Conns : At(c, "sg_round") /\ conn[c].loc.room = r
                                         /\ conn'[c].pc # "sg_round"
                    /\ ghost[r].cd = 0
                    /\ b.CurrentRound = 1
           /\ a.RoundState \in {"preparing", "countdown", "playing"} =>
                 b.CurrentRound = a.CurrentRound
           /\ Cardinality(fr) <= 1
           /\ \A i \in fr :
                 /\ <<a.RoundState, b.RoundState>> \in MoveOf(sent'[i].type)
                 /\ sent'[i].type # "prepare_round" => b.CurrentRound = a.CurrentRound
                 /\ sent'[i].type = "round_end" =>
                       /\ i < Len(sent')
                       /\ sent'[i + 1].type = "room_state_update"
                       /\ sent'[i + 1].room = r

\* C35: the roundState of a room moves only preparing -> countdown ->
\* playing -> ended -> preparing (or to ended when the room empties); a round
\* frame is sent only with its own move, in the round it belongs to, so each
\* is sent at most once per round number and in that order; round_end is
\* directly followed by room_state_update in the same critical section.
C35_RoundOrder == [][C35_Step]_vars


\* a second round has been prepared after the first one was played and ended
C35_Witness ==
    \E r \in DOMAIN room :
        /\ room[r].CurrentRound = 2
        /\ room[r].RoundState = "preparing"
        /\ \E i \in DOMAIN sent : sent[i].type = "prepare_round" /\ sent[i].room = r


\* C36: while the roundState of a room is preparing, countdown, playing or
\* ended, its currentSong is set and is the song at currentSongIndex of its
\* songPool.
C36_CurrentSong ==
    \A r \in DOMAIN room :
        room[r].RoundState \in {"preparing", "countdown", "playing", "ended"} =>
            /\ room[r].CurrentSong # Nil
            /\ room[r].CurrentSongIndex >= 0
            /\ room[r].CurrentSongIndex < Len(room[r].SongPool)
            /\ room[r].SongPool[room[r].CurrentSongIndex + 1] = room[r].CurrentSong


\* the ids of the cards of the board that are, or are not, matched
CardIdsBy(rm, matched) ==
    {rm.BoardCards[i].id : i \in {j \in DOMAIN rm.BoardCards :
                                     rm.BoardCards[j].isMatched = matched}}

\* C37: throughout a game every unmatched card's id is in the songPool and
\* no matched card's id is; so the song a prepare_round is sent for is never
\* that of a matched card, and a round is never in preparing with an empty
\* pool while some card is unmatched.
C37_PoolAndBoard ==
    \A r \in DOMAIN room :
        room[r].State = "playing" =>
            /\ CardIdsBy(room[r], FALSE) \subseteq Range(room[r].SongPool)
            /\ CardIdsBy(room[r], TRUE) \cap Range(room[r].SongPool) = {}
            /\ \A i \in DOMAIN sent :
                  sent[i].type = "prepare_round" /\ sent[i].room = r =>
                      room[r].CurrentSong \notin CardIdsBy(room[r], TRUE)
            /\ room[r].RoundState = "preparing" /\ Len(room[r].SongPool) = 0 =>
                  CardIdsBy(room[r], FALSE) = {}

\* a card has been matched, a card is still face down, and the next round
\* has been prepared
C37_Witness ==
    \E r \in DOMAIN room :
        /\ room[r].State = "playing"
        /\ CardIdsBy(room[r], TRUE) # {}
        /\ CardIdsBy(room[r], FALSE) # {}
        /\ room[r].CurrentRound = 2
        /\ \E i \in DOMAIN sent : sent[i].type = "prepare_round" /\ sent[i].room = r


\* the largest catalogue of the deals: one song more than the pool takes
DealSongs == 4

\* a catalogue of any size up to one that the pool cannot hold
InitDeal == \E n \in 1..DealSongs : Loaded(n)

\* the deals: the players enter and get ready, the owner starts the game
NextDeal == \E c \in 1..GameConns : Enter(c) \/ Ready(c) \/ Start(c)

SpecDeal == InitDeal /\ [][NextDeal]_vars

C38_Step ==
    \A c \in Conns :
        At(c, "sg_init") /\ conn'[c].pc = "sg_bcast" =>
            LET b == room'[conn[c].loc.room]
                poolSize == Min(PoolLimit, Len(globalSongs))
                cardSize == Min(CardLimit, poolSize)
            IN /\ Len(b.SongPool) = poolSize
               /\ Cardinality(Range(b.SongPool)) = poolSize
               /\ Range(b.SongPool) \subseteq Range(globalSongs)
               /\ Len(b.BoardCards) = cardSize
               /\ {b.BoardCards[i].id : i \in 1..cardSize}
                     = {b.SongPool[i] : i \in 1..cardSize}
               /\ \A i \in 1..cardSize : ~b.BoardCards[i].isMatched
               /\ b.State = "playing"
               /\ b.CurrentRound = 1
               /\ globalSongs' = globalSongs

\* C38: initGame makes the songPool min(25, |catalogue|) distinct songs of
\* the catalogue, deals the board from exactly the first min(16, |songPool|)
\* songs of the pool in any order with every card unmatched, sets state to
\* playing and currentRound to 1, and leaves the catalogue as it was.
C38_InitGame == [][C38_Step]_vars

\* initGame has dealt from a catalogue larger than the pool: the pool left a
\* song out, the board left a song of the pool out, and the board is not in
\* the order of the pool
C38_Witness ==
    \E c \in Conns :
        /\ At(c, "sg_bcast")
        /\ LET b == room[conn[c].loc.room]
           IN /\ Len(b.SongPool) < Len(globalSongs)
              /\ Len(b.BoardCards) < Len(b.SongPool)
              /\ b.BoardCards[1].id # b.SongPool[1]


\* the longest song of the timings, in seconds: three quarters of it are
\* more than the 90 s a round plays
MaxDuration == 125

\* a catalogue of one song of any duration up to MaxDuration (the id of a
\* song stands for its duration)
InitTiming ==
    /\ \E d \in 1..MaxDuration : globalSongs = <<d>>
    /\ rooms = <<>>
    /\ room = <<>>
    /\ player = <<>>
    /\ conn = [c \in Conns |-> IdleConn]
    /\ tasks = {}
    /\ sent = <<>>
    /\ ghost = <<>>

\* the timings: one player creates a room and starts the game, startRound
\* draws the start time
NextTiming == Create(1) \/ broadcastRoomState(1) \/ Start(1)

SpecTiming == InitTiming /\ [][NextTiming]_vars

\* C39: for a song of positive duration the prepare_round frame carries a
\* startTime with 0 <= startTime < max(1, duration*3/4) and playDuration =
\* min(90, duration - startTime), so 1 <= playDuration <= 90 and startTime +
\* playDuration <= duration.
C39_Timing ==
    \A i \in DOMAIN sent :
        sent[i].type = "prepare_round" =>
            LET duration == DurationOf(room[sent[i].room].CurrentSong)
                startTime == sent[i].payload.startTime
                playDuration == sent[i].payload.playDuration
                quarters == (duration * 3) \div 4
            IN /\ duration > 0
               /\ 0 <= startTime
               /\ startTime < (IF quarters > 1 THEN quarters ELSE 1)
               /\ playDuration = Min(90, duration - startTime)
               /\ 1 <= playDuration
               /\ playDuration <= 90
               /\ startTime + playDuration <= duration

\* a round of a long song that starts late and is cut at 90 s before the
\* song ends
C39_Witness ==
    \E i \in DOMAIN sent :
        /\ sent[i].type = "prepare_round"
        /\ sent[i].payload.startTime > 0
        /\ sent[i].payload.playDuration = 90
        /\ sent[i].payload.startTime + 90
              < DurationOf(room[sent[i].room].CurrentSong)

=============================================================================
